---- MODULE Spec2Model ----
(***************************************************************************)
(* Elimination-voting coordinator of watch-what (backend/app/main.py,      *)
(* backend/app/crud.py, backend/app/models.py).                            *)
(*                                                                         *)
(* The state is the content of the four tables (sessions, participants,    *)
(* movies, votes) plus what the last request handler returned to its       *)
(* caller (ret) and what it handed to manager.broadcast_to_session (pub).  *)
(* Every action is one whole request handler: the handlers are `async def` *)
(* and touch the database through synchronous calls only, so a handler     *)
(* runs without interleaving up to its first broadcast.                    *)
(***************************************************************************)
EXTENDS Integers, Sequences, FiniteSets

\* ---------------------------------------------------------------- bounds
MaxSessions == 1
MaxParticipants == 1
MaxMovies == 3
MaxRound == 3
MaxInitRound == 2
\* The bounds of the two-session specification SpecMulti.
MultiSessions == 2
MultiMovies == 2
MultiRound == 1
\* The bounds of the broadcast-router specification SpecRouter.
MaxConnections == 2
MaxWsSession == 2
MaxActive == 3
RouterPublishers == 1
\* The bounds of the two-publisher specification SpecFanouts.
MaxPublishes == 2
FanoutsActive == 2
\* The bound of the two-round specification SpecDecide.
DecideRound == 2
\* The bounds of the concurrent-handlers specification SpecTasks.
TasksMovies == 3
TasksRound == 2
TasksActive == 1

\* ------------------------------------------------------------- constants
\* A nullable column that holds NULL (ids and rounds start at 1).
None == 0

Statuses == {"submission", "voting", "revote", "finished"}
\* valid_statuses of update_session_status, plus one unrecognized string.
StatusInputs == Statuses \cup {"bogus"}

SessionIds == 1..MaxSessions
ParticipantIds == 1..MaxParticipants
MovieIds == 1..MaxMovies
Rounds == 1..MaxRound

VARIABLES
    sessions,      \* table sessions: id -> [status, current_round, winner_movie_id]
    participants,  \* table participants: id -> [session_id]
    movies,        \* table movies: id -> [session_id, eliminated_round]
    votes,         \* table votes: set of [participant_id, movie_id, round, session_id]
    ret,           \* what the last handler returned to its caller
    pub,           \* the events the last handler broadcast, in order
    hist           \* per session: [init_round, advances, n0, since]

\* The ConnectionManager instance `manager` (websocket_manager.py:166) and the
\* broadcasts that are in flight.
VARIABLES
    active_connections,   \* list of connections, in connect order
    session_connections,  \* dict session id -> set of connections
    connection_sessions,  \* dict connection -> session id
    fanout,               \* per publisher: its broadcast_to_session call
    inflight              \* the next-round request that is being handled

cvars == <<sessions, participants, movies, votes, ret, pub, hist, inflight>>
rvars == <<active_connections, session_connections, connection_sessions, fanout>>
vars == <<sessions, participants, movies, votes, ret, pub, hist,
          active_connections, session_connections, connection_sessions, fanout, inflight>>

\* ---------------------------------------------------------------- tables
\* crud.get_session: the row or None.
SessionExists(sid) == sid \in DOMAIN sessions

\* crud.get_participant
ParticipantExists(pid) == pid \in DOMAIN participants

\* crud.get_movie
MovieExists(mid) == mid \in DOMAIN movies

\* crud.get_session_movies: every movie of the session, eliminated or not.
get_session_movies(ms, sid) == {m \in DOMAIN ms : ms[m].session_id = sid}

\* crud.get_active_movies / the Movie.eliminated_round.is_(None) filter.
get_active_movies(ms, sid) ==
    {m \in DOMAIN ms : ms[m].session_id = sid /\ ms[m].eliminated_round = None}

\* crud.get_round_votes / the filter at the head of advance_session_round.
get_round_votes(vs, sid, r) == {v \in vs : v.session_id = sid /\ v.round = r}

\* The duplicate lookup of cast_vote: participant, movie and round only.
existing_vote(vs, vote) ==
    \E v \in vs : /\ v.participant_id = vote.participant_id
                  /\ v.movie_id = vote.movie_id
                  /\ v.round = vote.round

\* The set S as the sequence of its elements in ascending id order (the order
\* in which the rows were inserted, which is the order the queries return).
RECURSIVE InIdOrder(_)
InIdOrder(S) ==
    IF S = {} THEN <<>>
    ELSE LET lo == CHOOSE x \in S : \A y \in S : x <= y
         IN <<lo>> \o InIdOrder(S \ {lo})

\* ------------------------------------------------------- elimination rule
\* The movies advance_session_round tallies (crud.py:59).
TallyMovies(ms, sid) == get_session_movies(ms, sid)

\* vote_counts of advance_session_round and get_round_results: 0 for every
\* tallied movie, plus one per vote of the round that targets it.
VoteCounts(vs, tallied, sid, r) ==
    [m \in tallied |->
        Cardinality({v \in get_round_votes(vs, sid, r) : v.movie_id = m})]

\* min(vc["vote_count"] ...)
MinVotes(vc) == CHOOSE n \in {vc[m] : m \in DOMAIN vc} : \A m \in DOMAIN vc : n <= vc[m]

\* max(vc["vote_count"] ...)
MaxVotes(vc) == CHOOSE n \in {vc[m] : m \in DOMAIN vc} : \A m \in DOMAIN vc : n >= vc[m]

\* movies_to_eliminate of advance_session_round.
MoviesToEliminate(vc) ==
    IF DOMAIN vc = {} THEN {} ELSE {m \in DOMAIN vc : vc[m] = MinVotes(vc)}

\* The loop that stamps movie.eliminated_round = db_session.current_round.
MarkEliminated(ms, E, r) ==
    [m \in DOMAIN ms |-> IF m \in E THEN [ms[m] EXCEPT !.eliminated_round = r] ELSE ms[m]]

\* A round counter that skips a number.
NextRound_Skips(r) == r + 2

\* db_session.current_round += 1
NextRound(r) == r + 1

\* A game that ends only when exactly one movie is left.
GameOver_OnlyWithWinner(n) == n = 1

\* A game that ends only when no movie is left.
GameOver_WhenNoneLeft(n) == n < 1

\* if active_movies <= 1
GameOver(n) == n <= 1

\* A winner lookup that never finds the remaining movie.
PickWinner_Never(active) == None

\* The winner lookup: .first() of the active movies when exactly one is left.
PickWinner(active) == IF Cardinality(active) = 1 THEN CHOOSE m \in active : TRUE ELSE None

\* The orders in which a query can return the rows S: advance_session_round
\* iterates all_movies and current_round_votes as the database hands them out.
Orderings(S) ==
    {f \in [1..Cardinality(S) -> S] : \A i, j \in 1..Cardinality(S) : f[i] = f[j] => i = j}

Range(f) == {f[i] : i \in DOMAIN f}

\* The loop `for vote in current_round_votes` (crud.py:72-74).
RECURSIVE count_votes(_, _)
count_votes(vc, vseq) ==
    IF vseq = <<>> THEN vc
    ELSE LET v == Head(vseq)
         IN  count_votes(IF v.movie_id \in DOMAIN vc
                            THEN [vc EXCEPT ![v.movie_id] = @ + 1] ELSE vc,
                         Tail(vseq))

\* An elimination that takes only the first movie found with the minimum.
movies_to_eliminate_FirstOnly(mseq, vc) ==
    IF mseq = <<>> THEN <<>>
    ELSE LET i == CHOOSE i \in 1..Len(mseq) :
                        /\ vc[mseq[i]] = MinVotes(vc)
                        /\ \A j \in 1..(i - 1) : vc[mseq[j]] # MinVotes(vc)
         IN  << mseq[i] >>

\* The list movies_to_eliminate (crud.py:80-82), in the iteration order of
\* the dictionary vote_counts, which is the order of all_movies.
movies_to_eliminate(mseq, vc) ==
    IF mseq = <<>> THEN <<>>
    ELSE SelectSeq(mseq, LAMBDA m : vc[m] = MinVotes(vc))

\* advance_session_round (crud.py:53-123) as it runs when the two queries
\* return the movies in the order mseq and the votes in the order vseq: the
\* eliminated movies, the status and the winner it decides.
advance_in_order(ms, st, r, sid, mseq, vseq) ==
    LET vc     == count_votes([m \in Range(mseq) |-> 0], vseq)
        elim   == movies_to_eliminate(mseq, vc)
        ms2    == MarkEliminated(ms, Range(elim), r)
        active == get_active_movies(ms2, sid)
        over   == GameOver(Cardinality(active))
    IN  [eliminated |-> elim,
         status     |-> IF over THEN "finished" ELSE st,
         winner     |-> IF over THEN PickWinner(active) ELSE None]

\* crud.get_round_results: the read-only results of a round.
get_round_results(vs, ms, sid, r) ==
    LET vc == VoteCounts(vs, get_session_movies(ms, sid), sid, r)
    IN  [round |-> r,
         votes |-> vc,
         eliminated_movies |->
            IF DOMAIN vc # {} /\ MinVotes(vc) < MaxVotes(vc)
            THEN {m \in DOMAIN vc : vc[m] = MinVotes(vc)}
            ELSE {}]

\* ------------------------------------------------ checks of the handlers
\* A status check that lets votes in while the session is finished as well.
VotingOpen_AlsoFinished(st) == st \in {"voting", "revote", "finished"}

\* cast_vote: db_session.status in ["voting", "revote"] (main.py:186).
VotingOpen(st) == st \in {"voting", "revote"}

\* A target check that takes every movie for active.
IsEliminated_Never(movie) == FALSE

\* cast_vote: db_movie.eliminated_round is not None (main.py:198).
IsEliminated(movie) == movie.eliminated_round # None

\* A status validation that lets every string through.
ValidStatus_Any(st) == TRUE

\* update_session_status: status in valid_statuses (main.py:263-264).
ValidStatus(st) == st \in Statuses

\* ------------------------------------------------- responses and events
\* The response of a handler: the HTTP outcome and, for next-round, the
\* result dictionary of advance_session_round.
Response(op, sid, result) ==
    [op |-> op, session_id |-> sid, result |-> result,
     eliminated_movies |-> <<>>, old_round |-> None, new_round |-> None,
     winner |-> None]

\* One entry of eliminated_movies (crud.py:89-94).
EliminatedInfo(m, vc, r) == [movie_id |-> m, vote_count |-> vc[m], eliminated_round |-> r]

\* The "movie_eliminated" broadcasts of advance_to_next_round, in list order.
EliminationEvents(sid, elim) ==
    [i \in 1..Len(elim) |-> [type |-> "movie_eliminated", session_id |-> sid, movie |-> elim[i]]]

\* The "round_advanced" broadcast.
RoundAdvancedEvent(sid, old, new, elim) ==
    [type |-> "round_advanced", session_id |-> sid, old_round |-> old,
     new_round |-> new, eliminated_count |-> Len(elim)]

\* A game-over broadcast that is sent after every advance.
FinishedEvents_Always(sid, winner) ==
    << [type |-> "session_finished", session_id |-> sid, winner |-> winner] >>

\* The "session_finished" broadcast, sent only `if winner`.
FinishedEvents(sid, winner) ==
    IF winner # None
    THEN << [type |-> "session_finished", session_id |-> sid, winner |-> winner] >>
    ELSE <<>>

\* ---------------------------------------------------------------- history
\* Bookkeeping for the round-count properties: the round a session was
\* created with, its successful advances, and the number of active movies
\* (n0) and of advances (since) counted from the last request other than a
\* vote or an advance.
Restart(h, ms) ==
    [s \in DOMAIN h |->
        [h[s] EXCEPT !.n0 = Cardinality(get_active_movies(ms, s)), !.since = 0]]

\* ----------------------------------------------------- connection manager
\* websocket_manager.ConnectionManager.  A connection is a WebSocket object,
\* a session id is the int path parameter of /ws/{session_id}: the endpoint
\* looks no session up, so 0 is accepted like any other integer.
Connections == 1..MaxConnections
WsSessionIds == 0..MaxWsSession
Publishers == 1..MaxPublishes

\* What dict.get returns for a missing key (websocket_manager.py:72).
NoSession == -1

\* Python truth value of `session_id` in `if session_id and ...` (line 73):
\* None and 0 are both false.
Truthy(x) == x # NoSession /\ x # 0

\* `websocket in self.active_connections`
InList(seq, c) == \E i \in 1..Len(seq) : seq[i] = c

\* list.remove: drops the first occurrence only.
RemoveFirst(seq, c) ==
    LET i == CHOOSE i \in 1..Len(seq) : seq[i] = c /\ \A j \in 1..(i - 1) : seq[j] # c
    IN  SubSeq(seq, 1, i - 1) \o SubSeq(seq, i + 1, Len(seq))

DictGet(d, k) == IF k \in DOMAIN d THEN d[k] ELSE NoSession
DictDel(d, k) == [x \in DOMAIN d \ {k} |-> d[x]]
DictSet(d, k, v) == [x \in DOMAIN d \cup {k} |-> IF x = k THEN v ELSE d[x]]

\* The three containers of the manager as one value.
Registry ==
    [ac |-> active_connections, sc |-> session_connections, cs |-> connection_sessions]

EmptyRegistry == [ac |-> <<>>, sc |-> <<>>, cs |-> <<>>]

\* ConnectionManager.connect after `await websocket.accept()` (lines 47-56).
connect(reg, c, s) ==
    [ac |-> Append(reg.ac, c),
     sc |-> DictSet(reg.sc, s, (IF s \in DOMAIN reg.sc THEN reg.sc[s] ELSE {}) \cup {c}),
     cs |-> DictSet(reg.cs, c, s)]

\* ConnectionManager.disconnect (lines 67-82).
disconnect(reg, c) ==
    LET sid == DictGet(reg.cs, c)
    IN  [ac |-> IF InList(reg.ac, c) THEN RemoveFirst(reg.ac, c) ELSE reg.ac,
         sc |-> IF Truthy(sid) /\ sid \in DOMAIN reg.sc
                THEN LET rest == reg.sc[sid] \ {c}
                     IN  IF rest = {} THEN DictDel(reg.sc, sid)
                                      ELSE DictSet(reg.sc, sid, rest)
                ELSE reg.sc,
         cs |-> DictDel(reg.cs, c)]

\* The clean-up loop of broadcast_to_session (lines 141-142).
RECURSIVE disconnect_all(_, _)
disconnect_all(reg, D) ==
    IF D = {} THEN reg
    ELSE LET c == CHOOSE c \in D : \A d \in D : c <= d
         IN  disconnect_all(disconnect(reg, c), D \ {c})

\* get_session_connection_count / get_total_connection_count (lines 144-163).
get_session_connection_count(s) ==
    IF s \in DOMAIN session_connections THEN Cardinality(session_connections[s]) ELSE 0
get_total_connection_count == Len(active_connections)

\* A broadcast_to_session call: where it stands (pc), the set object it
\* iterates (the one stored under session_id while live; once disconnect has
\* deleted that entry the object is an empty set nobody else refers to), the
\* size the set iterator recorded when it was created (used), the members it
\* has yielded (visited), the connection whose send_text is awaited (cur), the
\* list `disconnected`, and the members of the set at call time (targets).
IdleFanout ==
    [pc |-> "idle", session_id |-> NoSession, targets |-> {}, used |-> 0, live |-> FALSE,
     visited |-> {}, cur |-> None, disconnected |-> {}]

\* The fan-outs whose set object has just been deleted from the dict.
Relink(fo, sc) ==
    [p \in DOMAIN fo |->
        IF fo[p].pc = "sending" /\ fo[p].live /\ fo[p].session_id \notin DOMAIN sc
        THEN [fo[p] EXCEPT !.live = FALSE] ELSE fo[p]]

\* A next-round request between its arrival and its response: where the
\* handler stands (pc), the votes crud.advance_session_round has read (seen),
\* the broadcasts still to be made (queue) and the response to return.
NoRequest == [pc |-> "idle", session_id |-> None, seen |-> {}, queue |-> <<>>, response |-> None]

RouterInit ==
    /\ active_connections = <<>>
    /\ session_connections = <<>>
    /\ connection_sessions = <<>>
    /\ fanout = [p \in Publishers |-> IdleFanout]
    /\ inflight = NoRequest

\* ------------------------------------------------------------------- Init
Init ==
    /\ sessions = <<>>
    /\ participants = <<>>
    /\ movies = <<>>
    /\ votes = {}
    /\ ret = Response("none", None, "ok")
    /\ pub = <<>>
    /\ hist = <<>>
    /\ RouterInit

\* ------------------------------------------------ POST /sessions/ (create)
\* main.create_session -> crud.create_session: status and current_round are
\* taken from the request body as they come.
CreateSessionWithin(limit, st, r) ==
    /\ Len(sessions) < limit
    /\ sessions' = Append(sessions, [status |-> st, current_round |-> r, winner_movie_id |-> None])
    /\ hist' = Restart(Append(hist, [init_round |-> r, advances |-> 0, n0 |-> 0, since |-> 0]), movies)
    /\ ret' = Response("createSession", Len(sessions) + 1, "ok")
    /\ pub' = <<>>
    /\ UNCHANGED <<participants, movies, votes>>

CreateSession(st, r) == CreateSessionWithin(MaxSessions, st, r)

\* ------------------------------------- POST /sessions/{id}/participants/
\* main.join_session: the path id selects the session that is checked, the
\* body's session_id is what crud.create_participant stores.
JoinSession(sid, body_sid) ==
    IF ~SessionExists(sid) THEN
        /\ ret' = Response("join", sid, "NotFound")
        /\ pub' = <<>>
        /\ UNCHANGED <<sessions, participants, movies, votes, hist>>
    ELSE IF sessions[sid].status # "submission" THEN
        /\ ret' = Response("join", sid, "InvalidState")
        /\ pub' = <<>>
        /\ UNCHANGED <<sessions, participants, movies, votes, hist>>
    ELSE
        /\ Len(participants) < MaxParticipants
        /\ participants' = Append(participants, [session_id |-> body_sid])
        /\ ret' = Response("join", sid, "ok")
        /\ pub' = << [type |-> "participant_joined", session_id |-> sid,
                      participant |-> Len(participants) + 1] >>
        /\ hist' = Restart(hist, movies)
        /\ UNCHANGED <<sessions, movies, votes>>

\* ------------------------------------------- POST /sessions/{id}/movies/
\* main.submit_movie -> crud.create_movie.
SubmitMovie(sid, body_sid, pid) ==
    IF ~SessionExists(sid) THEN
        /\ ret' = Response("submitCandidate", sid, "NotFound")
        /\ pub' = <<>>
        /\ UNCHANGED <<sessions, participants, movies, votes, hist>>
    ELSE IF sessions[sid].status # "submission" THEN
        /\ ret' = Response("submitCandidate", sid, "InvalidState")
        /\ pub' = <<>>
        /\ UNCHANGED <<sessions, participants, movies, votes, hist>>
    ELSE IF ~ParticipantExists(pid) THEN
        /\ ret' = Response("submitCandidate", sid, "NotFound")
        /\ pub' = <<>>
        /\ UNCHANGED <<sessions, participants, movies, votes, hist>>
    ELSE
        /\ Len(movies) < MaxMovies
        /\ movies' = Append(movies, [session_id |-> body_sid, eliminated_round |-> None])
        /\ ret' = Response("submitCandidate", sid, "ok")
        /\ pub' = << [type |-> "movie_submitted", session_id |-> sid,
                      movie |-> Len(movies) + 1] >>
        /\ hist' = Restart(hist, movies')
        /\ UNCHANGED <<sessions, participants, votes>>

\* -------------------------------------------- POST /sessions/{id}/votes/
\* main.cast_vote.  After crud.create_vote has committed the row, line 215
\* calls get_round_results(db, session_id, vote.round): inside main.py that
\* name is the route coroutine function of line 237, not crud's helper, so
\* the call only builds a coroutine object and subscripting it on line 218
\* raises TypeError.  The handler ends with HTTP 500, after the commit and
\* before the broadcast.
CastVote(sid, vote) ==
    IF ~SessionExists(sid) THEN
        /\ ret' = Response("castVote", sid, "NotFound")
        /\ pub' = <<>>
        /\ UNCHANGED <<sessions, participants, movies, votes, hist>>
    ELSE IF ~VotingOpen(sessions[sid].status) THEN
        /\ ret' = Response("castVote", sid, "InvalidState")
        /\ pub' = <<>>
        /\ UNCHANGED <<sessions, participants, movies, votes, hist>>
    ELSE IF ~ParticipantExists(vote.participant_id) THEN
        /\ ret' = Response("castVote", sid, "NotFound")
        /\ pub' = <<>>
        /\ UNCHANGED <<sessions, participants, movies, votes, hist>>
    ELSE IF ~MovieExists(vote.movie_id) THEN
        /\ ret' = Response("castVote", sid, "NotFound")
        /\ pub' = <<>>
        /\ UNCHANGED <<sessions, participants, movies, votes, hist>>
    ELSE IF IsEliminated(movies[vote.movie_id]) THEN
        /\ ret' = Response("castVote", sid, "InvalidTarget")
        /\ pub' = <<>>
        /\ UNCHANGED <<sessions, participants, movies, votes, hist>>
    ELSE IF existing_vote(votes, vote) THEN
        /\ ret' = Response("castVote", sid, "DuplicateVote")
        /\ pub' = <<>>
        /\ UNCHANGED <<sessions, participants, movies, votes, hist>>
    ELSE
        /\ votes' = votes \cup {vote}
        /\ ret' = Response("castVote", sid, "InternalError")
        /\ pub' = <<>>
        /\ UNCHANGED <<sessions, participants, movies, hist>>

\* --------------------------------------------- PUT /sessions/{id}/status
\* main.update_session_status -> crud.update_session_status.
UpdateStatus(sid, st) ==
    IF ~ValidStatus(st) THEN
        /\ ret' = Response("updateStatus", sid, "InvalidValue")
        /\ pub' = <<>>
        /\ UNCHANGED <<sessions, participants, movies, votes, hist>>
    ELSE IF ~SessionExists(sid) THEN
        /\ ret' = Response("updateStatus", sid, "NotFound")
        /\ pub' = <<>>
        /\ UNCHANGED <<sessions, participants, movies, votes, hist>>
    ELSE
        /\ sessions' = [sessions EXCEPT ![sid].status = st]
        /\ ret' = Response("updateStatus", sid, "ok")
        /\ pub' = << [type |-> "session_status_updated", session_id |-> sid, status |-> st] >>
        /\ hist' = Restart(hist, movies)
        /\ UNCHANGED <<participants, movies, votes>>

\* ----------------------------------------- POST /sessions/{id}/next-round
\* main.advance_to_next_round -> crud.advance_session_round, which tallies
\* the votes `seen` by its query of lines 54-56.
AdvanceWith(sid, seen) ==
    IF ~SessionExists(sid) THEN
        /\ ret' = Response("advanceRound", sid, "NotFound")
        /\ pub' = <<>>
        /\ UNCHANGED <<sessions, participants, movies, votes, hist>>
    ELSE
        LET old     == sessions[sid].current_round
            vc      == VoteCounts(seen, TallyMovies(movies, sid), sid, old)
            E       == MoviesToEliminate(vc)
            elim    == [i \in 1..Cardinality(E) |-> EliminatedInfo(InIdOrder(E)[i], vc, old)]
            ms2     == MarkEliminated(movies, E, old)
            new     == NextRound(old)
            active  == get_active_movies(ms2, sid)
            over    == GameOver(Cardinality(active))
            winner  == IF over THEN PickWinner(active) ELSE None
        IN  /\ old <= MaxRound
            /\ movies' = ms2
            /\ sessions' = [sessions EXCEPT
                    ![sid].current_round = new,
                    ![sid].status = IF over THEN "finished" ELSE @,
                    ![sid].winner_movie_id = IF winner # None THEN winner ELSE @]
            /\ ret' = [Response("advanceRound", sid, "ok") EXCEPT
                    !.eliminated_movies = elim, !.old_round = old,
                    !.new_round = new, !.winner = winner]
            /\ pub' = EliminationEvents(sid, elim)
                        \o << RoundAdvancedEvent(sid, old, new, elim) >>
                        \o FinishedEvents(sid, winner)
            /\ hist' = [hist EXCEPT ![sid].advances = @ + 1, ![sid].since = @ + 1]
            /\ UNCHANGED <<participants, votes>>

\* The votes are read (crud.py:54-56) and used in one synchronous call.
AdvanceRound(sid) == AdvanceWith(sid, votes)

\* ------------------------------------------------------------------- Next
\* The request bodies: a vote names any participant, movie and round and,
\* like the participant and movie bodies, any existing session.
VoteInputs ==
    [participant_id : ParticipantIds, movie_id : MovieIds, round : Rounds,
     session_id : DOMAIN sessions]

\* No WebSocket client is connected: session_connections is empty and every
\* broadcast_to_session returns on its first line (websocket_manager.py:128),
\* so a handler runs from its first line to its response without suspending.
NoClients == UNCHANGED <<rvars, inflight>>

Next ==
    \/ \E st \in Statuses, r \in 1..MaxInitRound : CreateSession(st, r) /\ NoClients
    \/ \E sid \in SessionIds, b \in DOMAIN sessions : JoinSession(sid, b) /\ NoClients
    \/ \E sid \in SessionIds, b \in DOMAIN sessions, pid \in ParticipantIds :
            SubmitMovie(sid, b, pid) /\ NoClients
    \/ \E sid \in SessionIds, vote \in VoteInputs : CastVote(sid, vote) /\ NoClients
    \/ \E sid \in SessionIds, st \in StatusInputs : UpdateStatus(sid, st) /\ NoClients
    \/ \E sid \in SessionIds : AdvanceRound(sid) /\ NoClients

Spec == Init /\ [][Next]_vars

\* ------------------------------------------------------------- SpecMulti
\* The same handlers with two sessions, so that the session id of the path
\* and the session_id of the body can differ; fewer movies and rounds.
MultiSessionIds == 1..MultiSessions

MultiVoteInputs ==
    [participant_id : ParticipantIds, movie_id : 1..MultiMovies, round : 1..MultiRound,
     session_id : DOMAIN sessions]

NextMulti ==
    \/ \E st \in Statuses : CreateSessionWithin(MultiSessions, st, 1) /\ NoClients
    \/ \E sid \in MultiSessionIds, b \in DOMAIN sessions : JoinSession(sid, b) /\ NoClients
    \/ \E sid \in MultiSessionIds, b \in DOMAIN sessions, pid \in ParticipantIds :
            SubmitMovie(sid, b, pid) /\ Len(movies') <= MultiMovies /\ NoClients
    \/ \E sid \in MultiSessionIds, vote \in MultiVoteInputs : CastVote(sid, vote) /\ NoClients
    \/ \E sid \in MultiSessionIds, st \in StatusInputs : UpdateStatus(sid, st) /\ NoClients
    \/ \E sid \in MultiSessionIds :
            /\ SessionExists(sid) => sessions[sid].current_round <= MultiRound
            /\ AdvanceRound(sid)
            /\ NoClients

SpecMulti == Init /\ [][NextMulti]_vars

\* ------------------------------------------------------------ SpecRouter
\* The manager under calls that interleave at its awaits.  Every action is a
\* stretch of code that runs on the event loop without suspending: connect
\* after accept, disconnect, and broadcast_to_session from one awaited
\* send_text to the next.
SetRegistry(reg) ==
    /\ active_connections' = reg.ac
    /\ session_connections' = reg.sc
    /\ connection_sessions' = reg.cs

\* websocket_endpoint -> manager.connect(websocket, session_id).
RegisterWithin(limit, c, s) ==
    /\ Len(active_connections) < limit
    /\ SetRegistry(connect(Registry, c, s))
    /\ fanout' = fanout

Register(c, s) == RegisterWithin(MaxActive, c, s)

\* websocket_endpoint's except branches -> manager.disconnect(websocket).
Unregister(c) ==
    LET reg == disconnect(Registry, c)
    IN  /\ SetRegistry(reg)
        /\ fanout' = Relink(fanout, reg.sc)

\* The head of `for connection in self.session_connections[session_id]` for
\* the fan-out p whose record is f: the set iterator raises RuntimeError when
\* the size of the set differs from the one it recorded, which nothing in
\* broadcast_to_session catches; otherwise it yields a member not yielded
\* yet and send_text is awaited, or the loop is over and the clean-up loop
\* runs.  A member added while the loop was suspended may be yielded or
\* missed, depending on the slot it landed in.
ForLoop(p, f) ==
    LET S    == IF f.live THEN session_connections[f.session_id] ELSE {}
        rest == S \ f.visited
    IN  IF Cardinality(S) # f.used THEN
            /\ fanout' = [fanout EXCEPT ![p] = [f EXCEPT !.pc = "failed", !.cur = None]]
            /\ UNCHANGED <<active_connections, session_connections, connection_sessions>>
        ELSE
            \/ /\ rest \cap f.targets = {}
               /\ LET reg == disconnect_all(Registry, f.disconnected)
                  IN  /\ SetRegistry(reg)
                      /\ fanout' = Relink([fanout EXCEPT ![p] =
                                        [f EXCEPT !.pc = "done", !.cur = None]], reg.sc)
            \/ \E c \in rest :
                /\ fanout' = [fanout EXCEPT ![p] =
                        [f EXCEPT !.pc = "sending", !.cur = c, !.visited = @ \cup {c}]]
                /\ UNCHANGED <<active_connections, session_connections, connection_sessions>>

\* manager.broadcast_to_session(message, s) up to its first await.
Publish(p, s) ==
    /\ fanout[p].pc = "idle"
    /\ IF s \notin DOMAIN session_connections THEN
            /\ fanout' = [fanout EXCEPT ![p] = [IdleFanout EXCEPT !.pc = "done", !.session_id = s]]
            /\ UNCHANGED <<active_connections, session_connections, connection_sessions>>
       ELSE ForLoop(p, [IdleFanout EXCEPT !.session_id = s, !.live = TRUE,
                            !.targets = session_connections[s],
                            !.used = Cardinality(session_connections[s])])

\* The awaited send_text of fan-out p returns (sent) or raises (error), and
\* the loop goes on to its next pass.
Resume(p, outcome) ==
    /\ fanout[p].pc = "sending"
    /\ ForLoop(p, IF outcome = "error"
                  THEN [fanout[p] EXCEPT !.disconnected = @ \cup {fanout[p].cur}]
                  ELSE fanout[p])

\* The handler that awaited broadcast_to_session goes on (the call returned)
\* or ends with the RuntimeError; the publisher is free for the next request.
Return(p) ==
    /\ fanout[p].pc \in {"done", "failed"}
    /\ fanout' = [fanout EXCEPT ![p] = IdleFanout]
    /\ UNCHANGED <<active_connections, session_connections, connection_sessions>>

NextRouter ==
    \/ \E c \in Connections, s \in WsSessionIds : Register(c, s) /\ UNCHANGED cvars
    \/ \E c \in Connections : Unregister(c) /\ UNCHANGED cvars
    \/ \E p \in 1..RouterPublishers, s \in WsSessionIds : Publish(p, s) /\ UNCHANGED cvars
    \/ \E p \in 1..RouterPublishers, outcome \in {"sent", "error"} :
            Resume(p, outcome) /\ UNCHANGED cvars
    \/ \E p \in 1..RouterPublishers : Return(p) /\ UNCHANGED cvars

SpecRouter == Init /\ [][NextRouter]_vars

\* ----------------------------------------------------------- SpecFanouts
\* Two request handlers that publish to session 1 on the same event loop.
NextFanouts ==
    \/ \E c \in Connections : RegisterWithin(FanoutsActive, c, 1) /\ UNCHANGED cvars
    \/ \E c \in Connections : Unregister(c) /\ UNCHANGED cvars
    \/ \E p \in Publishers : Publish(p, 1) /\ UNCHANGED cvars
    \/ \E p \in Publishers, outcome \in {"sent", "error"} : Resume(p, outcome) /\ UNCHANGED cvars
    \/ \E p \in Publishers : Return(p) /\ UNCHANGED cvars

SpecFanouts == Init /\ [][NextFanouts]_vars

\* ------------------------------------------------------------- SpecStall
\* One publisher and a client that stopped reading: send_text to it never
\* returns (line 135 awaits it without a timeout).  Connections are
\* registered once, as websocket_endpoint does, and no connection joins or
\* leaves the session of a broadcast that is in flight.  The event loop
\* resumes a broadcast whose awaited send has completed.
Stalled == {1}

ResumeLive ==
    /\ fanout[1].cur \notin Stalled
    /\ \E outcome \in {"sent", "error"} : Resume(1, outcome)
    /\ UNCHANGED cvars

NextStall ==
    \/ \E c \in Connections, s \in WsSessionIds :
            /\ fanout[1].pc = "idle" \/ s # fanout[1].session_id
            /\ c \notin DOMAIN connection_sessions
            /\ Register(c, s)
            /\ UNCHANGED cvars
    \/ \E c \in Connections :
            /\ fanout[1].pc = "idle" \/ DictGet(connection_sessions, c) # fanout[1].session_id
            /\ Unregister(c)
            /\ UNCHANGED cvars
    \/ \E s \in 1..MaxWsSession : Publish(1, s) /\ UNCHANGED cvars
    \/ ResumeLive
    \/ Return(1) /\ UNCHANGED cvars

SpecStall == Init /\ [][NextStall]_vars /\ WF_vars(ResumeLive)

\* ------------------------------------------------------------------------
\* One session, its candidates and the votes of its first rounds: the states
\* on which the decision of advance_session_round is examined.
NextDecide ==
    \/ \E st \in Statuses : CreateSessionWithin(MaxSessions, st, 1) /\ NoClients
    \/ \E sid \in SessionIds : JoinSession(sid, sid) /\ NoClients
    \/ \E sid \in SessionIds, pid \in ParticipantIds : SubmitMovie(sid, sid, pid) /\ NoClients
    \/ \E sid \in SessionIds, vote \in VoteInputs :
            vote.round <= DecideRound /\ CastVote(sid, vote) /\ NoClients
    \/ \E sid \in SessionIds, st \in Statuses : UpdateStatus(sid, st) /\ NoClients
    \/ \E sid \in SessionIds :
            /\ SessionExists(sid)
            /\ sessions[sid].current_round <= DecideRound
            /\ AdvanceRound(sid)
            /\ NoClients
SpecDecide == Init /\ [][NextDecide]_vars

\* ------------------------------------------------------------------------
\* Concurrent requests.  The handlers of main.py are coroutines of one event
\* loop (uvicorn.run, main.py:372): a handler gives up control only at an
\* await.  crud.advance_session_round is a plain function, so the handler of
\* next-round can be suspended only before it starts and inside the
\* broadcasts that follow the commit (main.py:296-321).  The request is cut
\* here into the query of the votes (AdvanceRead), the rest of
\* advance_session_round (AdvanceWrite), one step per broadcast and the
\* return; another handler may run wherever Yields allows, which is while no
\* request is being handled and while the handler waits in a send_text
\* (websocket_manager.py:135).
Yields_Everywhere(pc) == TRUE

Yields(pc) == pc \in {"idle", "sending"}

\* Where the next-round request stands.
Position ==
    IF inflight.pc = "publishing" /\ fanout[1].pc = "sending" THEN "sending" ELSE inflight.pc

TasksSessionIds == 1..1

\* The handlers that run before the first client connects.
NoClientYet == session_connections = <<>> /\ inflight.pc = "idle"

\* crud.py:49-56: the session is found and its votes are queried.
AdvanceRead(sid) ==
    /\ inflight.pc = "idle"
    /\ SessionExists(sid)
    /\ sessions[sid].current_round <= TasksRound
    /\ inflight' = [NoRequest EXCEPT !.pc = "read", !.session_id = sid, !.seen = votes]
    /\ UNCHANGED <<sessions, participants, movies, votes, ret, pub, hist, rvars>>

\* crud.py:59-133: tally, eliminations, new round, commit.
AdvanceWrite ==
    /\ inflight.pc = "read"
    /\ AdvanceWith(inflight.session_id, inflight.seen)
    /\ inflight' = [inflight EXCEPT !.pc = "publishing", !.queue = pub', !.response = ret']
    /\ UNCHANGED rvars

\* main.py:296-321: the next broadcast of the handler is started.
AdvanceSend ==
    /\ inflight.pc = "publishing"
    /\ inflight.queue # <<>>
    /\ Publish(1, inflight.session_id)
    /\ UNCHANGED cvars

\* The broadcast in progress resumes after an awaited send_text.
AdvanceResume(outcome) ==
    /\ inflight.pc = "publishing"
    /\ Resume(1, outcome)
    /\ UNCHANGED cvars

\* The broadcast returns to the handler, or raises in it and ends the
\* request with a server error.
AdvanceSent ==
    /\ inflight.pc = "publishing"
    /\ Return(1)
    /\ IF fanout[1].pc = "done"
         THEN /\ inflight' = [inflight EXCEPT !.queue = Tail(@)]
              /\ ret' = ret
         ELSE /\ inflight' = NoRequest
              /\ ret' = Response("advanceRound", inflight.session_id, "InternalError")
    /\ UNCHANGED <<sessions, participants, movies, votes, pub, hist>>

\* main.py:324-330: the response.
AdvanceReturn ==
    /\ inflight.pc = "publishing"
    /\ inflight.queue = <<>>
    /\ fanout[1].pc = "idle"
    /\ ret' = inflight.response
    /\ inflight' = NoRequest
    /\ UNCHANGED <<sessions, participants, movies, votes, pub, hist, rvars>>

NextTasks ==
    \/ \E st \in Statuses : NoClientYet /\ CreateSessionWithin(1, st, 1) /\ NoClients
    \/ \E sid \in TasksSessionIds : NoClientYet /\ JoinSession(sid, sid) /\ NoClients
    \/ \E sid \in TasksSessionIds, pid \in ParticipantIds :
            NoClientYet /\ SubmitMovie(sid, sid, pid) /\ Len(movies') <= TasksMovies /\ NoClients
    \/ \E sid \in TasksSessionIds, st \in Statuses :
            NoClientYet /\ UpdateStatus(sid, st) /\ NoClients
    \/ \E c \in Connections, sid \in TasksSessionIds :
            Yields(Position) /\ RegisterWithin(TasksActive, c, sid) /\ UNCHANGED cvars
    \/ \E c \in Connections : Yields(Position) /\ Unregister(c) /\ UNCHANGED cvars
    \/ \E sid \in TasksSessionIds, vote \in VoteInputs :
            /\ Yields(Position)
            /\ vote.round <= TasksRound
            /\ CastVote(sid, vote)
            /\ NoClients
    \/ \E sid \in TasksSessionIds : AdvanceRead(sid)
    \/ AdvanceWrite
    \/ AdvanceSend
    \/ \E outcome \in {"sent", "error"} : AdvanceResume(outcome)
    \/ AdvanceSent
    \/ AdvanceReturn
SpecTasks == Init /\ [][NextTasks]_vars

\* ================================================================ claims
\* What the last handler did, read off its response.
Succeeded(op) == ret.op = op /\ ret.result = "ok"

\* The movie ids listed in a response's eliminated_movies.
EliminatedIds(r) == {r.eliminated_movies[i].movie_id : i \in 1..Len(r.eliminated_movies)}

\* C1: advanceRound eliminates exactly the active candidates that hold the
\* minimum count of the current round among the active candidates; candidates
\* eliminated earlier take no part in the tally or in the minimum.
C1_EliminatesActiveMinimum ==
    [][(ret'.op = "advanceRound" /\ ret'.result = "ok") =>
        LET sid    == ret'.session_id
            active == get_active_movies(movies, sid)
            tally  == VoteCounts(votes, active, sid, sessions[sid].current_round)
        IN  /\ EliminatedIds(ret') = MoviesToEliminate(tally)
            /\ {m \in DOMAIN movies : movies'[m] # movies[m]} = MoviesToEliminate(tally)
      ]_vars

\* C2: eliminated_round is assigned at most once: once it is non-null no
\* later operation assigns it again or changes its value.
C2_EliminatedRoundSetOnce ==
    [][\A m \in DOMAIN movies :
          movies[m].eliminated_round # None =>
              /\ movies'[m].eliminated_round = movies[m].eliminated_round
              /\ (ret'.op = "advanceRound" => m \notin EliminatedIds(ret'))
      ]_vars

\* C3: a session with n >= 1 active candidates is finished after at most n
\* successful advanceRound calls, whatever votes are cast between them.
\* (n0 and since are counted from the last request other than a vote or an
\* advance, so only votes lie between the counted advances.)
C3_FinishedWithinNAdvances ==
    \A s \in DOMAIN sessions :
        (hist[s].n0 >= 1 /\ hist[s].since >= hist[s].n0) => sessions[s].status = "finished"

\* C4: current_round equals the round the session was created with plus the
\* number of successful advanceRound calls; no other operation changes it.
C4_RoundCountsAdvances ==
    \A s \in DOMAIN sessions :
        sessions[s].current_round = hist[s].init_round + hist[s].advances

C4_Witness ==
    /\ Succeeded("advanceRound")
    /\ hist[ret.session_id].advances >= 2
    /\ hist[ret.session_id].init_round = 2
    /\ sessions[ret.session_id].current_round = 4

\* The operations of the coordinator's public contract.
PublicOps == {"join", "submitCandidate", "castVote", "advanceRound", "updateStatus"}

\* The session the last successful public operation was addressed to.
AfterSuccess == ret.op \in PublicOps /\ ret.result = "ok" /\ SessionExists(ret.session_id)

\* C5 (as stated): after every successful operation on a session, status =
\* finished holds if and only if at most one candidate of the session has a
\* null eliminated_round.
C5_FinishedIffAtMostOneActive ==
    AfterSuccess =>
        (sessions[ret.session_id].status = "finished"
            <=> Cardinality(get_active_movies(movies, ret.session_id)) <= 1)

\* C5 (amended): a successful advanceRound leaves the session finished if and
\* only if at most one candidate of the session is left with a null
\* eliminated_round or the session was finished before the call.
C5_AdvanceFinishesAtMostOneActive ==
    [][(ret'.op = "advanceRound" /\ ret'.result = "ok") =>
        LET sid == ret'.session_id
        IN  sessions'[sid].status = "finished"
                <=> \/ Cardinality(get_active_movies(movies', sid)) <= 1
                    \/ sessions[sid].status = "finished"
      ]_vars

C5_Witness ==
    /\ Succeeded("advanceRound")
    /\ Cardinality(get_active_movies(movies, ret.session_id)) = 1
    /\ Cardinality(get_session_movies(movies, ret.session_id)) = 3
    /\ sessions[ret.session_id].status = "finished"
    /\ ret.winner # None

\* C6 (as stated): after every successful operation on a session, the winner
\* field is set if and only if exactly one candidate of the session has a
\* null eliminated_round.
C6_WinnerIffExactlyOneActive ==
    AfterSuccess =>
        (sessions[ret.session_id].winner_movie_id # None
            <=> Cardinality(get_active_movies(movies, ret.session_id)) = 1)

\* C6 (amended): a successful advanceRound returns a winner if and only if it
\* leaves exactly one candidate of the session with a null eliminated_round,
\* and then the returned winner and the session's winner field are that
\* candidate.
C6_AdvanceRecordsSingleSurvivor ==
    Succeeded("advanceRound") =>
        LET active == get_active_movies(movies, ret.session_id)
        IN  /\ ret.winner # None <=> Cardinality(active) = 1
            /\ Cardinality(active) = 1 =>
                    /\ ret.winner \in active
                    /\ sessions[ret.session_id].winner_movie_id = ret.winner

C6_Witness ==
    /\ Succeeded("advanceRound")
    /\ ret.winner # None
    /\ get_active_movies(movies, ret.session_id) = {ret.winner}
    /\ sessions[ret.session_id].winner_movie_id = ret.winner
    /\ Len(ret.eliminated_movies) >= 1

\* The checks of castVote that come before the duplicate lookup.
PassesValidation(sid, vote) ==
    /\ SessionExists(sid)
    /\ sessions[sid].status \in {"voting", "revote"}
    /\ ParticipantExists(vote.participant_id)
    /\ MovieExists(vote.movie_id)
    /\ movies[vote.movie_id].eliminated_round = None

\* C7: for any (participant, candidate, round) the first castVote succeeds,
\* every later one with the same triple fails with DuplicateVote, and at most
\* one vote record exists per triple.
C7_VoteIdempotence ==
    [][\A sid \in SessionIds, vote \in VoteInputs :
          (CastVote(sid, vote) /\ PassesValidation(sid, vote)) =>
              /\ ~existing_vote(votes, vote) => (ret'.result = "ok" /\ vote \in votes')
              /\ existing_vote(votes, vote) => (ret'.result = "DuplicateVote" /\ votes' = votes)
              /\ \A v, w \in votes' :
                    (v.participant_id = w.participant_id /\ v.movie_id = w.movie_id
                        /\ v.round = w.round) => v = w
      ]_vars

\* C8: every castVote that stores a vote completes successfully and publishes
\* exactly one vote_cast event carrying the tally of the voted round computed
\* after the vote was stored.
C8_StoredVotePublishesTally ==
    [][\A sid \in SessionIds, vote \in VoteInputs :
          (CastVote(sid, vote) /\ votes' # votes) =>
              /\ ret'.result = "ok"
              /\ Len(pub') = 1
              /\ pub'[1].type = "vote_cast"
              /\ pub'[1].vote_summaries = get_round_results(votes', movies, sid, vote.round).votes
      ]_vars

\* C9: whenever castVote returns an error the stored votes are as before the
\* call; whenever advanceRound fails, round, status, winner and every
\* eliminated_round are as before the call.
C9_NoPartialStateOnFailure ==
    [][/\ (ret'.op = "castVote" /\ ret'.result # "ok") => votes' = votes
       /\ (ret'.op = "advanceRound" /\ ret'.result # "ok") => UNCHANGED <<sessions, movies>>
      ]_vars

\* C10: every stored vote has the round that was the current_round of the
\* addressed session when the vote was cast.
C10_VotesOnlyForCurrentRound ==
    [][\A sid \in SessionIds, vote \in VoteInputs :
          (CastVote(sid, vote) /\ votes' # votes) =>
              vote.round = sessions[sid].current_round
      ]_vars

\* C11: castVote on a session whose status is not voting or revote fails with
\* InvalidState, stores no vote and publishes no event; a vote is stored only
\* while the addressed session is in voting or revote.
C11_VotesOnlyWhileVoting ==
    [][(ret'.op = "castVote" /\ SessionExists(ret'.session_id)) =>
        LET st == sessions[ret'.session_id].status
        IN  /\ st \notin {"voting", "revote"} =>
                    (ret'.result = "InvalidState" /\ votes' = votes /\ pub' = <<>>)
            /\ votes' # votes => st \in {"voting", "revote"}
      ]_vars

C11_Witness ==
    /\ ret.op = "castVote"
    /\ ret.result = "InvalidState"
    /\ sessions[ret.session_id].status = "finished"
    /\ \E m \in DOMAIN movies : movies[m].eliminated_round = None
    /\ participants # <<>>

\* C12: castVote for a candidate whose eliminated_round is non-null fails,
\* stores no vote and publishes no event, and the failure is InvalidTarget
\* when the request passes the checks made before the target check (session
\* found and in voting or revote, participant found); every vote that is
\* stored targets a candidate that is active at that moment.
C12_NoVoteForEliminated ==
    [][ret'.op = "castVote" =>
        /\ votes' # votes =>
              \A v \in votes' \ votes :
                    MovieExists(v.movie_id) /\ movies[v.movie_id].eliminated_round = None
        /\ \A m \in DOMAIN movies :
              movies[m].eliminated_round # None =>
                \A p \in ParticipantIds, r \in Rounds, b \in DOMAIN sessions :
                  CastVote(ret'.session_id,
                           [participant_id |-> p, movie_id |-> m, round |-> r,
                            session_id |-> b]) =>
                    /\ ret'.result \notin {"ok", "InternalError"}
                    /\ votes' = votes
                    /\ pub' = <<>>
                    /\ (SessionExists(ret'.session_id)
                            /\ sessions[ret'.session_id].status \in {"voting", "revote"}
                            /\ ParticipantExists(p))
                        => ret'.result = "InvalidTarget"
      ]_vars

C12_Witness ==
    /\ ret.op = "castVote"
    /\ ret.result = "InvalidTarget"
    /\ \E m \in DOMAIN movies : movies[m].eliminated_round # None
    /\ sessions[ret.session_id].status \in {"voting", "revote"}

\* C13: every stored vote's participant and candidate belong to the same
\* session as the vote, and that session is the one the castVote call was
\* addressed to.
C13_VoteWithinOneSession ==
    [][\A sid \in MultiSessionIds, vote \in MultiVoteInputs :
          (CastVote(sid, vote) /\ votes' # votes) =>
              /\ vote.session_id = sid
              /\ participants[vote.participant_id].session_id = vote.session_id
              /\ movies[vote.movie_id].session_id = vote.session_id
      ]_vars

\* C14: submitCandidate fails with InvalidState unless the session is in
\* submission, and a candidate is only ever added to the session whose status
\* was checked, which is in submission.
C14_CandidatesOnlyInSubmission ==
    [][/\ (ret'.op = "submitCandidate" /\ SessionExists(ret'.session_id)
                /\ sessions[ret'.session_id].status # "submission")
            => (ret'.result = "InvalidState" /\ movies' = movies)
       /\ \A m \in DOMAIN movies' \ DOMAIN movies :
            /\ movies'[m].session_id = ret'.session_id
            /\ sessions[movies'[m].session_id].status = "submission"
      ]_vars

\* C15: join fails with NotFound for an absent session and with InvalidState
\* unless the session is in submission, and a participant is only ever added
\* to the session whose status was checked, which is in submission.
C15_ParticipantsOnlyInSubmission ==
    [][/\ (ret'.op = "join" /\ ~SessionExists(ret'.session_id))
            => (ret'.result = "NotFound" /\ participants' = participants)
       /\ (ret'.op = "join" /\ SessionExists(ret'.session_id)
                /\ sessions[ret'.session_id].status # "submission")
            => (ret'.result = "InvalidState" /\ participants' = participants)
       /\ \A p \in DOMAIN participants' \ DOMAIN participants :
            /\ participants'[p].session_id = ret'.session_id
            /\ sessions[participants'[p].session_id].status = "submission"
      ]_vars

\* C16: once a session is finished every mutating operation on it is
\* rejected and its status, current_round, winner, eliminated_rounds and
\* votes stay unchanged.  (Stated for the operations other than updateStatus,
\* whose contract is to set the status whatever the current one is.)
C16_FinishedIsTerminal ==
    [][\A s \in DOMAIN sessions :
          (sessions[s].status = "finished" /\ ret'.op # "updateStatus") =>
              /\ sessions'[s] = sessions[s]
              /\ \A m \in get_session_movies(movies, s) : movies'[m] = movies[m]
              /\ {v \in votes' : v.session_id = s} = {v \in votes : v.session_id = s}
              /\ (ret'.op \in PublicOps /\ ret'.session_id = s) => ret'.result # "ok"
      ]_vars

C19_AllTiedEliminatesAll ==
    [][(ret'.op = "advanceRound" /\ ret'.result = "ok") =>
        LET sid    == ret'.session_id
            active == get_active_movies(movies, sid)
            tally  == VoteCounts(votes, active, sid, sessions[sid].current_round)
        IN  (Cardinality(active) >= 2 /\ \A a, b \in active : tally[a] = tally[b]) =>
                /\ active \subseteq EliminatedIds(ret')
                /\ get_active_movies(movies', sid) = {}
                /\ sessions'[sid].status = "finished"
                /\ ret'.winner = None
                /\ sessions'[sid].winner_movie_id = sessions[sid].winner_movie_id
                /\ \A i \in 1..Len(pub') : pub'[i].type # "session_finished"
      ]_vars

\* C20: updateStatus with an unrecognized value fails with InvalidValue,
\* changes nothing and publishes nothing; with a recognized value and an
\* absent session it fails with NotFound and publishes nothing; otherwise it
\* sets the status whatever the current one is and publishes exactly one
\* session_status_updated event carrying the new status.
C20_UpdateStatusContract ==
    [][\A sid \in SessionIds, st \in StatusInputs :
          (ret'.op = "updateStatus" /\ UpdateStatus(sid, st)) =>
              IF st \notin {"submission", "voting", "revote", "finished"} THEN
                  /\ ret'.result = "InvalidValue"
                  /\ pub' = <<>>
                  /\ UNCHANGED <<sessions, participants, movies, votes>>
              ELSE IF ~SessionExists(sid) THEN
                  /\ ret'.result = "NotFound"
                  /\ pub' = <<>>
                  /\ UNCHANGED <<sessions, participants, movies, votes>>
              ELSE
                  /\ ret'.result = "ok"
                  /\ sessions' = [sessions EXCEPT ![sid].status = st]
                  /\ Len(pub') = 1
                  /\ pub'[1].type = "session_status_updated"
                  /\ pub'[1].session_id = sid
                  /\ pub'[1].status = st
                  /\ UNCHANGED <<participants, movies, votes>>
      ]_vars

C20_Witness ==
    /\ Succeeded("updateStatus")
    /\ sessions[ret.session_id].status = "voting"
    /\ sessions[ret.session_id].winner_movie_id # None
    /\ Len(pub) = 1
    /\ pub[1].status = "voting"

\* The manager's containers after the step.
RegistryAfter ==
    [ac |-> active_connections', sc |-> session_connections', cs |-> connection_sessions']

\* The session sets of reg that hold connection c.
SetsHolding(reg, c) == {s \in DOMAIN reg.sc : c \in reg.sc[s]}

\* How often c occurs in the list of reg.
Occurrences(reg, c) == Cardinality({i \in 1..Len(reg.ac) : reg.ac[i] = c})

\* No container of reg mentions c.
NoTrace(reg, c) ==
    /\ SetsHolding(reg, c) = {}
    /\ c \notin DOMAIN reg.cs
    /\ Occurrences(reg, c) = 0

\* The broadcast of publisher p ends with this step (it returns, or raises).
Ends(p) == fanout'[p].pc \in {"done", "failed"} /\ fanout[p].pc \notin {"done", "failed"}

\* Publisher p begins a send_text with this step.
BeginsSend(p) ==
    /\ fanout'[p].pc = "sending"
    /\ fanout[p].pc = "sending" => fanout'[p].cur # fanout[p].cur

\* C21: a publish attempts delivery exactly once to every connection that
\* was registered under its session at call time, and to no connection whose
\* current registration is under a different session.
C21_FanOutCorrect ==
    [][\A p \in Publishers :
          /\ Ends(p) => fanout'[p].visited = fanout'[p].targets
          /\ BeginsSend(p) =>
                LET c == fanout'[p].cur
                IN  c \in DOMAIN connection_sessions =>
                        connection_sessions[c] = fanout'[p].session_id
      ]_vars

\* C22: for any session id, 0 included, a connection whose send failed
\* during a publish is, once the publish returns, absent from the session
\* sets, from the reverse map and from the total count (so that no later
\* publish finds it).
C22_EvictionCorrect ==
    [][\A p \in Publishers :
          (fanout'[p].pc = "done" /\ fanout[p].pc # "done") =>
              \A c \in fanout'[p].disconnected : NoTrace(RegistryAfter, c)
      ]_vars

\* C23: register overwrites the association: after register(c, s) the
\* connection is a member of the set of s and of no other, is counted once,
\* is mapped to s, and a single unregister removes every trace of it.
C23_RegisterOverwrites ==
    [][\A c \in Connections, s \in WsSessionIds :
          (Register(c, s) /\ c \in DOMAIN connection_sessions) =>
              /\ SetsHolding(RegistryAfter, c) = {s}
              /\ Occurrences(RegistryAfter, c) = 1
              /\ connection_sessions'[c] = s
              /\ NoTrace(disconnect(RegistryAfter, c), c)
      ]_vars

\* C24: unregister(c) removes c from the session sets and from the reverse
\* map, for every session id a connection can be registered under, and no
\* session id ever maps to an empty set.
C24_UnregisterRemoves ==
    [][/\ \A c \in Connections :
            Unregister(c) =>
                /\ SetsHolding(RegistryAfter, c) = {}
                /\ c \notin DOMAIN connection_sessions'
       /\ \A s \in DOMAIN session_connections' : session_connections'[s] # {}
      ]_vars

\* C25: unregister of a connection that is not registered (the reverse map
\* has no entry for it: never registered, already unregistered or already
\* evicted) leaves every mapping and count unchanged.
C25_UnregisterIdempotent ==
    [][\A c \in Connections :
          (Unregister(c) /\ c \notin DOMAIN connection_sessions) =>
              /\ RegistryAfter = Registry
              /\ get_total_connection_count' = get_total_connection_count
      ]_vars

\* C26: a publish in which a send failed still returns normally, and every
\* connection that was registered for the session at call time got its
\* delivery attempt in that publish.
C26_FailureDoesNotAbort ==
    [][\A p \in Publishers :
          (Ends(p) /\ fanout'[p].disconnected # {}) =>
              /\ fanout'[p].pc = "done"
              /\ fanout'[p].targets \subseteq fanout'[p].visited
      ]_vars

\* C27: a connection whose send never completes does not block the fan-out:
\* every other connection that was registered for the session when the
\* publish began eventually gets its delivery attempt.
C27_StallDoesNotBlock ==
    \A d \in Connections \ Stalled :
        (/\ fanout[1].pc = "sending"
         /\ d \in fanout[1].targets
         /\ DictGet(connection_sessions, d) = fanout[1].session_id)
            ~> (d \in fanout[1].visited)

\* C28: within one session the fan-out of one publish is over before the
\* fan-out of the next one begins: two broadcasts to the same session are
\* never both suspended in a send.
C28_OneFanoutAtATime ==
    \A p, q \in Publishers :
        (p # q /\ fanout[p].pc = "sending" /\ fanout[q].pc = "sending")
            => fanout[p].session_id # fanout[q].session_id

\* C30: while a fan-out is suspended at a send, the set it iterates is not
\* changed by anyone else, and no fan-out ends with the set iterator's
\* RuntimeError.
C30_SetStableWhileIterated ==
    [][\A p \in Publishers :
          /\ (fanout[p].pc = "sending" /\ fanout'[p].pc = "sending"
                /\ fanout'[p].visited = fanout[p].visited) =>
                  /\ fanout'[p].live = fanout[p].live
                  /\ fanout[p].live =>
                        session_connections'[fanout[p].session_id]
                            = session_connections[fanout[p].session_id]
          /\ fanout'[p].pc # "failed"
      ]_vars

\* C29: a vote and a next-round request on the same session behave as if
\* serialized.  Between the query of the votes by advance_session_round and
\* its commit no other step happens and no vote is stored, so the tally it
\* commits is the tally of the votes stored at that moment: the step that
\* writes is exactly the step an uninterrupted next-round request takes from
\* the current database, and a vote is checked and inserted either wholly
\* before the read or wholly after the commit.
C29_VoteAndAdvanceSerialized ==
    [][/\ inflight.pc = "read" =>
             /\ inflight'.pc # "read"
             /\ votes' = votes
             /\ inflight.seen = votes
             /\ AdvanceRound(inflight.session_id)
       /\ votes' # votes => inflight.pc # "read" /\ inflight'.pc = inflight.pc
      ]_vars

\* A vote for the new round has been stored while the next-round request that
\* opened this round is still suspended in one of its broadcasts.
C29_Witness ==
    /\ inflight.pc = "publishing"
    /\ fanout[1].pc = "sending"
    /\ ret.op = "castVote"
    /\ ret.result = "InternalError"
    /\ inflight.response.result = "ok"
    /\ \E v \in votes :
          /\ v.session_id = inflight.session_id
          /\ v.round = inflight.response.new_round
          /\ v \notin inflight.seen

\* The participants / votes stored under session b.
ParticipantsOf(ps, b) == {p \in DOMAIN ps : ps[p].session_id = b}
VotesOf(vs, b) == {v \in vs : v.session_id = b}

\* C31: an operation addressed to session A (the path parameter) leaves the
\* status, current_round, winner, participants, candidates and votes of every
\* other session B unchanged.  (The half of the claim about publish is the
\* cross-session delivery of C21.)
C31_SessionsIndependent ==
    [][\A b \in DOMAIN sessions :
          (ret'.op \in PublicOps /\ ret'.session_id # b) =>
              /\ sessions'[b] = sessions[b]
              /\ ParticipantsOf(participants', b) = ParticipantsOf(participants, b)
              /\ get_session_movies(movies', b) = get_session_movies(movies, b)
              /\ \A m \in get_session_movies(movies, b) : movies'[m] = movies[m]
              /\ VotesOf(votes', b) = VotesOf(votes, b)
      ]_vars

\* C32: the decision of advanceRound is a function of the candidates, their
\* eliminated_round values, the round and the votes only: whatever the order
\* in which the movies and the votes of the round are iterated, the
\* elimination set, the resulting status and the winner are the same (so two
\* sessions that agree on these get the same decision).
C32_AdvanceDeterministic ==
    [][(ret'.op = "advanceRound" /\ ret'.result = "ok") =>
          LET sid == ret'.session_id
              old == sessions[sid].current_round
          IN  \A mseq \in Orderings(get_session_movies(movies, sid)),
                 vseq \in Orderings(get_round_votes(votes, sid, old)) :
                    LET d == advance_in_order(movies, sessions[sid].status, old, sid, mseq, vseq)
                    IN  /\ Range(d.eliminated) = EliminatedIds(ret')
                        /\ Len(d.eliminated) = Len(ret'.eliminated_movies)
                        /\ d.status = sessions'[sid].status
                        /\ d.winner = ret'.winner
      ]_vars

\* An advance that tallied three movies and two votes of the round, for
\* different movies, and eliminated one movie.
C32_Witness ==
    /\ Succeeded("advanceRound")
    /\ Cardinality(get_session_movies(movies, ret.session_id)) = 3
    /\ \E v, w \in get_round_votes(votes, ret.session_id, ret.old_round) : v.movie_id # w.movie_id
    /\ Len(ret.eliminated_movies) = 1

\* C33: the tally of the current round, in advance_session_round and in
\* get_round_results alike, has exactly the active candidates as its keys,
\* and each count is the number of stored votes of the session and round
\* that target the candidate (0 when there is none).
C33_TallyOverActive ==
    \A sid \in DOMAIN sessions :
        LET r       == sessions[sid].current_round
            active  == get_active_movies(movies, sid)
            tally   == VoteCounts(votes, TallyMovies(movies, sid), sid, r)
            preview == get_round_results(votes, movies, sid, r).votes
        IN  /\ DOMAIN tally = active
            /\ DOMAIN preview = active
            /\ \A m \in active :
                  /\ tally[m] = Cardinality({v \in votes : v.session_id = sid
                                                /\ v.round = r /\ v.movie_id = m})
                  /\ preview[m] = tally[m]

\* C34: advanceRound changes the status only from voting or revote to
\* finished, and only when at most one active candidate remains; it never
\* changes the status of a session in submission, and leaves the status
\* unchanged when two or more active candidates remain.
C34_AdvanceStatusChange ==
    [][(ret'.op = "advanceRound" /\ ret'.result = "ok") =>
          LET sid   == ret'.session_id
              left  == Cardinality(get_active_movies(movies', sid))
          IN  /\ sessions'[sid].status # sessions[sid].status =>
                    /\ sessions[sid].status \in {"voting", "revote"}
                    /\ sessions'[sid].status = "finished"
                    /\ left <= 1
              /\ sessions[sid].status = "submission" => sessions'[sid].status = "submission"
              /\ left >= 2 => sessions'[sid].status = sessions[sid].status
      ]_vars

\* C35: the read-only results of the current round and advanceRound agree
\* whenever the counts of the candidates are not all equal (the preview lists
\* the movies advanceRound then eliminates), and when the counts of the
\* two or more candidates that are left are equal (a session-wide tie) the
\* preview lists no movie.
C35_PreviewAgreesWithAdvance ==
    [][(ret'.op = "advanceRound" /\ ret'.result = "ok") =>
          LET sid      == ret'.session_id
              old      == sessions[sid].current_round
              active   == get_active_movies(movies, sid)
              tally    == VoteCounts(votes, active, sid, old)
              allEqual == \A a, b \in active : tally[a] = tally[b]
              preview  == get_round_results(votes, movies, sid, old).eliminated_movies
          IN  /\ ~allEqual => preview = EliminatedIds(ret')
              /\ (Cardinality(active) >= 2 /\ allEqual) => preview = {}
      ]_vars

\* The step is one of the broadcast of publisher p (its call, the return of
\* one of its sends, or its return to the caller).
PublishStep(p) ==
    fanout'[p].pc # fanout[p].pc \/ fanout'[p].visited # fanout[p].visited

\* C36: a connection leaves the registry only by a failed send or by the
\* disconnect handler of the endpoint: a publish in which no send failed
\* (a publish to a session without connections included) leaves the registry
\* unchanged, and after the endpoint has handled a client's disconnect the
\* connection is in no mapping any more.
C36_LeavesOnlyByEvictionOrDisconnect ==
    [][/\ \A p \in Publishers :
            (PublishStep(p) /\ fanout'[p].disconnected = {}
                /\ fanout[p].disconnected = {}) => RegistryAfter = Registry
       /\ \A c \in Connections :
            (Unregister(c) /\ c \in DOMAIN connection_sessions) =>
                NoTrace(RegistryAfter, c)
      ]_vars

\* The sum of get_session_connection_count over the sessions S.
RECURSIVE SumOfSessionCounts(_)
SumOfSessionCounts(S) ==
    IF S = {} THEN 0
    ELSE LET s == CHOOSE s \in S : TRUE
         IN  get_session_connection_count(s) + SumOfSessionCounts(S \ {s})

\* C37: the three structures of the manager agree: c is in
\* session_connections[s] if and only if connection_sessions[c] = s, the
\* connections registered this way are exactly the ones in active_connections,
\* each once, and so the total count is the sum of the session counts.
C37_RegistryConsistent ==
    /\ \A c \in Connections, s \in WsSessionIds :
          (s \in DOMAIN session_connections /\ c \in session_connections[s])
              <=> DictGet(connection_sessions, c) = s
    /\ \A c \in Connections :
          Occurrences(Registry, c) = (IF c \in DOMAIN connection_sessions THEN 1 ELSE 0)
    /\ get_total_connection_count = SumOfSessionCounts(DOMAIN session_connections)

\* C38: an eliminated candidate's eliminated_round is the round that was
\* current when the advanceRound that eliminated it started: it is written
\* only by an advanceRound, only on a candidate that was still active, with
\* the session's round before the increment, and is therefore always
\* strictly less than the session's current_round.
C38_EliminatedRoundIsRoundOfElimination ==
    [][\A m \in DOMAIN movies :
          LET sid == movies[m].session_id
          IN  /\ movies'[m].eliminated_round # None =>
                    movies'[m].eliminated_round < sessions'[sid].current_round
              /\ movies'[m].eliminated_round # movies[m].eliminated_round =>
                    /\ ret'.op = "advanceRound"
                    /\ movies[m].eliminated_round = None
                    /\ movies'[m].eliminated_round = sessions[sid].current_round
      ]_vars

\* C39: advanceRound on a session with no candidate at all eliminates nothing
\* and publishes no elimination event, increments current_round by 1,
\* publishes round_advanced with eliminated_count 0 and nothing else, sets
\* status = finished, and records and returns no winner.
C39_AdvanceWithoutCandidates ==
    [][\A sid \in SessionIds :
          (ret'.op = "advanceRound" /\ ret'.session_id = sid /\ SessionExists(sid)
                /\ get_session_movies(movies, sid) = {}) =>
              /\ ret'.result = "ok"
              /\ ret'.eliminated_movies = <<>>
              /\ movies' = movies
              /\ sessions'[sid].current_round = sessions[sid].current_round + 1
              /\ sessions'[sid].status = "finished"
              /\ sessions'[sid].winner_movie_id = sessions[sid].winner_movie_id
              /\ ret'.winner = None
              /\ Len(pub') = 1
              /\ pub'[1].type = "round_advanced"
              /\ pub'[1].session_id = sid
              /\ pub'[1].old_round = sessions[sid].current_round
              /\ pub'[1].new_round = sessions[sid].current_round + 1
              /\ pub'[1].eliminated_count = 0
      ]_vars

\* An advance has just finished a session in its first round that has no
\* candidate: one round_advanced event, no winner.
C39_Witness ==
    /\ Succeeded("advanceRound")
    /\ get_session_movies(movies, ret.session_id) = {}
    /\ sessions[ret.session_id].status = "finished"
    /\ sessions[ret.session_id].current_round = 2
    /\ sessions[ret.session_id].winner_movie_id = None
    /\ Len(pub) = 1

====
